---- MODULE Spec2Model ----
(***************************************************************************)
(* Model of the greeting-e2e verification engine (src/src/greeting_e2e.rs) *)
(* with its two HTTP clients (greeting_api.rs, greeting_receiver.rs) and   *)
(* of the binary's main function (src/src/main.rs), which calls it.        *)
(*                                                                         *)
(* execute_e2e_test is one async function.  Each action below is the code  *)
(* that runs between two suspension points (.await) of that function: the  *)
(* return of a pending HTTP request or of the backoff sleep, followed by   *)
(* everything the code does until the next request is issued or the        *)
(* function returns.  The deadline of verify_tasks is a separate action    *)
(* that can fire at any suspension point inside the timeout scope.         *)
(*                                                                         *)
(* The two services are the environment: the log is an append-only         *)
(* sequence of entries, and every HTTP response is drawn from a bounded    *)
(* set that contains the well-behaved answer as well as failures and       *)
(* answers that break the API contract.                                    *)
(*                                                                         *)
(* Option<T> is modelled as a sequence: None is <<>>, Some(x) is <<x>>.    *)
(***************************************************************************)
EXTENDS Integers, Sequences, FiniteSets, TLC

\* ---- bounds of the model -------------------------------------------------
MaxIter == 2      \* num_iterations ranges over 0..MaxIter
MaxLimit == 1     \* greeting_log_limit ranges over 0..MaxLimit
MaxInitLog == 1   \* entries already in the log when the run starts
MaxLog == 2       \* entries the log can hold in one run
MaxPage == 2      \* entries in one response of GET /log

\* message identifiers the receiver can hand out
MsgIds == {"m1", "m2"}
\* message identifier of unrelated traffic sharing the log
OtherMid == "x"
LogMids == MsgIds \cup {OtherMid}

\* HTTP statuses the services answer with
ApiStatuses == {200, 201, 204, 500}
ReceiverStatuses == {200, 304, 500}

VARIABLES
    pc,                 \* position of execute_e2e_test
    num_iterations,     \* cfg.num_iterations
    greeting_log_limit, \* cfg.greeting_log_limit
    log,                \* the log service's entries, in id order
    last_resp,          \* Option: response of GET /log/last
    offset,             \* starting offset of execute_e2e_test
    task_list,          \* Vec<TestTask> built by generate_test_tasks
    send_idx,           \* position of the for loop of send_messages
    tasks,              \* the registry: HashMap<String, TestTask>
    send_failed,        \* history: external references whose send failed
    send_ok,            \* history: external references whose send gave Ok
    n_sends,            \* history: receiver requests issued
    current_offset,     \* current_offset of verify_tasks
    req,                \* Option: the last GET /log request issued
    page,               \* the last Vec<GreetingLoggEntry> received
    last_seen,          \* history: per message id of the registry, Option:
                        \* the entry the for loop of verify_tasks ran over last
    first_req,          \* history, Option: the first GET /log request issued
    result,             \* what execute_e2e_test returned
    last_ret,           \* history, Option: what get_last_log_entry returned
    send_order,         \* history: external references in the order their
                        \* POST /greeting was issued
    sent_mid,           \* history: <<external reference, message id>> of
                        \* every send that gave Ok
    poll_resp,          \* Option: the kind of answer of GET /log the loop
                        \* is handling, None once the next request is out
    main_ret,           \* what main returned, "Running" before it returns
    gen_failed,         \* history: positions of the batch whose payload the
                        \* generator failed to produce
    last_consumed,      \* history, Option: the id of the entry the for loop
                        \* of verify_tasks ran over last
    consumed,           \* history: ids of the entries the for loop ran over,
                        \* in order, up to the first repetition; kept only
                        \* in the runs against a log service that keeps its
                        \* contract (SpecContract), where it is finite
    printed             \* Option: what print_test_result reported

vars == <<pc, num_iterations, greeting_log_limit, log, last_resp, offset,
          task_list, send_idx, tasks, send_failed, send_ok, n_sends,
          current_offset, req, page, last_seen, first_req, result, last_ret,
          send_order, sent_mid, poll_resp, main_ret, gen_failed,
          last_consumed, consumed, printed>>

\* ---- data ----------------------------------------------------------------
Range(s) == {s[i] : i \in 1..Len(s)}

\* the sequences of at most n different elements of S
SeqsUpTo(S, n) ==
    {q \in UNION {[1..k -> S] : k \in 0..n} :
        \A i, j \in 1..Len(q) : i # j => q[i] # q[j]}

\* GreetingLoggEntry: id and message_id (greeting_id and created are carried
\* along unread)
GreetingLoggEntry(i, m) == [id |-> i, message_id |-> m]

\* TestTask as generate_test_tasks builds it; the external reference of the
\* i-th generated message is i (Uuid::now_v7 gives a fresh one per call)
TestTask(i) ==
    [external_reference |-> i, message_id |-> <<>>, greeting_logg_entry |-> <<>>]

\* faulty variant: one task short
generate_test_tasks_short(n) == [i \in 1..(n - 1) |-> TestTask(i)]
generate_test_tasks(n) == [i \in 1..n |-> TestTask(i)]

\* the batch when the generator is the fallible generate_message() and
\* fails for the payloads at the positions in failed: those tasks are left
\* out, the others are kept in generation order
\* faulty variant: generation stops at the first failure
GenerateBatch_stop(n, failed) ==
    SelectSeq(generate_test_tasks(n),
              LAMBDA t : \A j \in failed : t.external_reference < j)
GenerateBatch(n, failed) ==
    SelectSeq(generate_test_tasks(n),
              LAMBDA t : t.external_reference \notin failed)

\* Result<HashMap<String, TestTask>, E2EError>, and a panic that unwinds
\* through execute_e2e_test
Pending == [kind |-> "Pending", tasks |-> <<>>]
OkResult(t) == [kind |-> "Ok", tasks |-> t]
ClientError == [kind |-> "ClientError", tasks |-> <<>>]
Panicked == [kind |-> "Panic", tasks |-> <<>>]

\* faulty variants: the timeout hands back the registry as it stands, as an
\* error or as Ok
TimeoutResult_partial(t) == [kind |-> "TimeoutError", tasks |-> t]
TimeoutResult_ok(t) == [kind |-> "Ok", tasks |-> t]
TimeoutResult(t) == [kind |-> "TimeoutError", tasks |-> <<>>]

\* reqwest's Response::error_for_status_ref gives Err for 4xx and 5xx only
IsErrorStatus(s) == s >= 400 /\ s <= 599
\* StatusCode::is_success
IsSuccess(s) == s >= 200 /\ s <= 299

\* ---- GreetingApiClient::get_last_log_entry -------------------------------
Transport == [kind |-> "transport", status |-> 0, body |-> <<>>]
Http(s, b) == [kind |-> "http", status |-> s, body |-> b]

\* answers of GET /log/last: a transport failure, 204 on an empty log, 200
\* with the newest entry (body <<e>>) or with a body that is no entry (<<>>),
\* and the other statuses
LastResponses(l) ==
    {Transport}
    \cup {Http(s, <<>>) : s \in ApiStatuses \ {204}}
    \cup (IF l = <<>> THEN {Http(204, <<>>)} ELSE {Http(200, <<l[Len(l)]>>)})

ROk(v) == [kind |-> "Ok", val |-> v]
RErr == [kind |-> "Err", val |-> <<>>]
RPanic == [kind |-> "Panic", val |-> <<>>]

get_last_log_entry(resp) ==
    IF resp.kind = "transport" THEN RErr
    ELSE IF resp.status = 200
         THEN IF resp.body = <<>> THEN RErr ELSE ROk(resp.body)
    ELSE IF resp.status = 204 THEN ROk(<<>>)
    ELSE IF IsErrorStatus(resp.status) THEN RErr
    ELSE RPanic

\* faulty variant: the watermark is put one past the last entry
StartingOffset_next(opt) == IF opt = <<>> THEN 0 ELSE opt[1].id + 1
StartingOffset(opt) == IF opt = <<>> THEN 0 ELSE opt[1].id

\* ---- GreetingApiClient::get_log_entries ----------------------------------
\* the query string of GET /log
LogRequest(off, lim) == [direction |-> "forward", offset |-> off, limit |-> lim]

\* what a server that keeps the contract of GET /log answers: the first
\* lim entries with id >= off, in id order
RECURSIVE LogPage(_, _, _)
LogPage(l, off, lim) ==
    IF l = <<>> \/ lim = 0 THEN <<>>
    ELSE IF Head(l).id >= off
         THEN <<Head(l)>> \o LogPage(Tail(l), off, lim - 1)
         ELSE LogPage(Tail(l), off, lim)

\* answers of GET /log: a transport failure, 204, 500, 200 with a body that
\* is no array (parsed FALSE), and 200 with at most MaxPage different
\* entries of the log in any order, the contract-keeping page LogPage among
\* them when it has at most MaxPage entries
LogResponses(l) ==
    {[kind |-> "transport", status |-> 0, parsed |-> FALSE, body |-> <<>>],
     [kind |-> "http", status |-> 204, parsed |-> FALSE, body |-> <<>>],
     [kind |-> "http", status |-> 500, parsed |-> FALSE, body |-> <<>>],
     [kind |-> "http", status |-> 200, parsed |-> FALSE, body |-> <<>>]}
    \cup {[kind |-> "http", status |-> 200, parsed |-> TRUE, body |-> p] :
             p \in SeqsUpTo(Range(l), MaxPage)}

\* faulty variant: no arm for 204, which then runs into unwrap_err
get_log_entries_no204(resp) ==
    IF resp.kind = "transport" THEN RErr
    ELSE IF resp.status = 200
         THEN IF resp.parsed THEN ROk(resp.body) ELSE RErr
    ELSE IF IsErrorStatus(resp.status) THEN RErr
    ELSE RPanic
get_log_entries(resp) ==
    IF resp.kind = "transport" THEN RErr
    ELSE IF resp.status = 200
         THEN IF resp.parsed THEN ROk(resp.body) ELSE RErr
    ELSE IF resp.status = 204 THEN ROk(<<>>)
    ELSE IF IsErrorStatus(resp.status) THEN RErr
    ELSE RPanic

\* ---- GreetingReceiverClient::send ----------------------------------------
\* answers of POST /greeting: a transport failure, a status with a body
\* that holds a message id (<<m>>) or none (<<>>)
SendResponses ==
    {Transport}
    \cup {Http(s, <<>>) : s \in ReceiverStatuses}
    \cup {Http(200, <<m>>) : m \in MsgIds}

send(resp) ==
    IF resp.kind = "transport" THEN RErr
    ELSE IF IsSuccess(resp.status)
         THEN IF resp.body = <<>> THEN RErr ELSE ROk(resp.body)
    ELSE IF IsErrorStatus(resp.status) THEN RErr
    ELSE RPanic

\* ---- send_messages -------------------------------------------------------
\* faulty variant: a task whose send failed is registered under an empty key
RegisterSent_always(t, task, r) ==
    IF r.kind = "Ok"
    THEN (r.val[1] :> [task EXCEPT !.message_id = r.val]) @@ t
    ELSE ("" :> task) @@ t
\* faulty variant: the task is inserted without its message_id
RegisterSent_noid(t, task, r) ==
    IF r.kind = "Ok" THEN (r.val[1] :> task) @@ t ELSE t
\* faulty variant: a key already in the registry keeps its task
RegisterSent_keepfirst(t, task, r) ==
    IF r.kind = "Ok"
    THEN t @@ (r.val[1] :> [task EXCEPT !.message_id = r.val])
    ELSE t
\* the match on resp in the for loop: insert under the returned id, or log
RegisterSent(t, task, r) ==
    IF r.kind = "Ok"
    THEN (r.val[1] :> [task EXCEPT !.message_id = r.val]) @@ t
    ELSE t

\* ---- verify_tasks --------------------------------------------------------
\* faulty variants of the while condition: true for an empty registry; true
\* only while no task at all is matched
AnyUnverified_orempty(t) ==
    DOMAIN t = {} \/ \E k \in DOMAIN t : t[k].greeting_logg_entry = <<>>
AnyUnverified_all(t) ==
    DOMAIN t # {} /\ \A k \in DOMAIN t : t[k].greeting_logg_entry = <<>>
\* the while condition
AnyUnverified(t) == \E k \in DOMAIN t : t[k].greeting_logg_entry = <<>>

\* faulty variants: ask from current_offset itself; ask from the starting
\* offset every time; ask from two past current_offset
PollRequest_nosucc(cur, lim) == LogRequest(cur, lim)
PollRequest_skip(cur, lim) == LogRequest(cur + 2, lim)
PollRequest_deflimit(cur, lim) ==
    LogRequest(cur + 1, IF lim = 0 THEN 1 ELSE lim)
PollRequest_start(cur, lim) == LogRequest(offset + 1, lim)
\* the arguments of the get_log_entries call
PollRequest(cur, lim) == LogRequest(cur + 1, lim)

\* faulty variant: an attached entry is never replaced
AttachEntry_first(t, e) ==
    IF e.message_id \in DOMAIN t /\ t[e.message_id].greeting_logg_entry = <<>>
    THEN [t EXCEPT ![e.message_id].greeting_logg_entry = <<e>>]
    ELSE t
\* faulty variant: the entry is attached to every task of the registry
AttachEntry_any(t, e) ==
    [k \in DOMAIN t |-> [t[k] EXCEPT !.greeting_logg_entry = <<e>>]]
\* the body of the for loop over a page: attach on a match, move the offset
AttachEntry(t, e) ==
    IF e.message_id \in DOMAIN t
    THEN [t EXCEPT ![e.message_id].greeting_logg_entry = <<e>>]
    ELSE t

\* faulty variant: the offset never moves back
AdvanceOffset_max(cur, t, e) == IF e.id > cur THEN e.id ELSE cur
\* faulty variant: the offset moves only on a match
AdvanceOffset_onmatch(cur, t, e) == IF e.message_id \in DOMAIN t THEN e.id ELSE cur
\* current_offset = log_entry.id, match or not
AdvanceOffset(cur, t, e) == e.id

RECURSIVE ProcessEntries(_, _, _)
\* faulty variant: the loop is left after the first entry of the page
ProcessEntries_partial(p, t, cur) ==
    IF p = <<>> THEN [tasks |-> t, current_offset |-> cur]
    ELSE [tasks |-> AttachEntry(t, Head(p)),
          current_offset |-> AdvanceOffset(cur, t, Head(p))]
ProcessEntries(p, t, cur) ==
    IF p = <<>> THEN [tasks |-> t, current_offset |-> cur]
    ELSE ProcessEntries(Tail(p), AttachEntry(t, Head(p)),
                        AdvanceOffset(cur, t, Head(p)))

\* ---- the run -------------------------------------------------------------
\* the log at the start of a run: entries of earlier traffic
InitialLogs == {[i \in 1..n |-> GreetingLoggEntry(i, OtherMid)] : n \in 0..MaxInitLog}

Init ==
    /\ pc = "start"
    /\ num_iterations \in 0..MaxIter
    /\ greeting_log_limit \in 0..MaxLimit
    /\ log \in InitialLogs
    /\ last_resp = <<>>
    /\ offset = 0
    /\ task_list = <<>>
    /\ send_idx = 0
    /\ tasks = <<>>
    /\ send_failed = {}
    /\ send_ok = {}
    /\ n_sends = 0
    /\ current_offset = 0
    /\ req = <<>>
    /\ page = <<>>
    /\ last_seen = [m \in MsgIds |-> <<>>]
    /\ first_req = <<>>
    /\ result = Pending
    /\ last_ret = <<>>
    /\ send_order = <<>>
    /\ sent_mid = {}
    /\ poll_resp = <<>>
    /\ main_ret = "Running"
    /\ gen_failed = {}
    /\ last_consumed = <<>>
    /\ consumed = <<>>
    /\ printed = <<>>

\* the head of the while loop of verify_tasks, entered with registry t and
\* offset cur: return Ok(tasks) or issue the next GET /log
VerifyLoop(t, cur) ==
    /\ tasks' = t
    /\ current_offset' = cur
    /\ poll_resp' = <<>>
    /\ IF AnyUnverified(t)
       THEN /\ pc' = "poll_pending"
            /\ req' = <<PollRequest(cur, greeting_log_limit)>>
            /\ first_req' = IF first_req = <<>> THEN req' ELSE first_req
            /\ result' = result
       ELSE /\ pc' = "done"
            /\ result' = OkResult(t)
            /\ UNCHANGED <<req, first_req>>

\* the for loop of send_messages after i tasks, with registry t: issue the
\* next POST /greeting, or return the registry to verify_tasks, which starts
\* at the starting offset start
SendLoop(list, i, t, start) ==
    IF i < Len(list)
    THEN /\ pc' = "send_pending"
         /\ send_idx' = i + 1
         /\ n_sends' = n_sends + 1
         /\ send_order' = Append(send_order, list[i + 1].external_reference)
         /\ tasks' = t
         /\ UNCHANGED <<current_offset, req, first_req, result, poll_resp>>
    ELSE /\ send_idx' = i
         /\ n_sends' = n_sends
         /\ send_order' = send_order
         /\ VerifyLoop(t, start)

\* execute_e2e_test is called: GET /log/last is issued
StartRun ==
    /\ pc = "start"
    /\ pc' = "last_pending"
    /\ UNCHANGED <<num_iterations, greeting_log_limit, log, last_resp, offset,
                   task_list, send_idx, tasks, send_failed, send_ok, n_sends,
                   current_offset, req, page, last_seen, first_req, result,
                   last_ret, send_order, sent_mid, poll_resp, main_ret>>
    /\ UNCHANGED <<gen_failed, last_consumed, consumed, printed>>

\* GET /log/last returns resp, and the generator, when it is called, gives
\* the batch gen.list with the payloads at the positions gen.failed missing
OffsetDiscovered(resp, gen) ==
    LET r == get_last_log_entry(resp) IN
    /\ pc = "last_pending"
    /\ last_resp' = <<resp>>
    /\ last_ret' = <<r>>
    /\ IF r.kind = "Ok"
       THEN /\ offset' = StartingOffset(r.val)
            /\ task_list' = gen.list
            /\ gen_failed' = gen.failed
            /\ SendLoop(task_list', 0, <<>>, offset')
       ELSE /\ pc' = "done"
            /\ result' = IF r.kind = "Err" THEN ClientError ELSE Panicked
            /\ UNCHANGED <<offset, task_list, send_idx, tasks, n_sends,
                           send_order, current_offset, req, first_req,
                           poll_resp, gen_failed>>
    /\ UNCHANGED <<num_iterations, greeting_log_limit, log, send_failed,
                   send_ok, page, last_seen, sent_mid, main_ret>>
    /\ UNCHANGED <<last_consumed, consumed, printed>>

\* GET /log/last returns; the generator is the infallible Fn() -> GreetingCmd
LastLogEntryReturns ==
    \E resp \in LastResponses(log) :
        OffsetDiscovered(resp, [list |-> generate_test_tasks(num_iterations),
                                failed |-> {}])

\* GET /log/last returns; the generator is a MessageGenerator whose
\* generate_message() fails for the payloads at the positions in F
FallibleLastLogEntryReturns ==
    \E resp \in LastResponses(log) : \E F \in SUBSET (1..num_iterations) :
        OffsetDiscovered(resp, [list |-> GenerateBatch(num_iterations, F),
                                failed |-> F])

\* POST /greeting for task_list[send_idx] returns
SendReturns ==
    /\ pc = "send_pending"
    /\ \E resp \in SendResponses :
         LET r == send(resp)
             task == task_list[send_idx] IN
         /\ send_ok' = IF r.kind = "Ok"
                       THEN send_ok \cup {task.external_reference}
                       ELSE send_ok
         /\ send_failed' = IF r.kind # "Ok"
                           THEN send_failed \cup {task.external_reference}
                           ELSE send_failed
         /\ sent_mid' = IF r.kind = "Ok"
                        THEN sent_mid \cup {<<task.external_reference, r.val[1]>>}
                        ELSE sent_mid
         /\ IF r.kind = "Panic"
            THEN /\ pc' = "done"
                 /\ result' = Panicked
                 /\ UNCHANGED <<send_idx, tasks, n_sends, send_order,
                                current_offset, req, first_req, poll_resp>>
            ELSE SendLoop(task_list, send_idx,
                          RegisterSent(tasks, task, r), offset)
    /\ UNCHANGED <<num_iterations, greeting_log_limit, log, last_resp, offset,
                   task_list, page, last_seen, last_ret, main_ret>>
    /\ UNCHANGED <<gen_failed, last_consumed, consumed, printed>>

\* the kinds of answer of GET /log: 204, 200 with an array of entries, and
\* everything else (no answer, another status, a body that is no array)
StatusLine(resp) ==
    IF resp.kind = "http" /\ resp.status = 204 THEN "204"
    ELSE IF resp.kind = "http" /\ resp.status = 200 /\ resp.parsed THEN "200"
    ELSE "failure"

\* Err(e) => panic!("Error when verifying tasks: {}", e); a panic inside
\* get_log_entries unwinds the same way
PollFailure(r) == Panicked

\* GET /log returns resp inside the timeout scope
PollReturns(resp) ==
    /\ pc = "poll_pending"
    /\   LET r == get_log_entries(resp) IN
         IF r.kind # "Ok"
         THEN /\ pc' = "done"
              /\ result' = PollFailure(r)
              /\ poll_resp' = <<StatusLine(resp)>>
              /\ UNCHANGED <<tasks, current_offset, req, page, last_seen,
                             first_req, last_consumed>>
         ELSE /\ page' = r.val
              /\ last_consumed' = IF r.val = <<>> THEN last_consumed
                                  ELSE <<r.val[Len(r.val)].id>>
              /\ last_seen' = [m \in MsgIds |->
                                 IF /\ m \in DOMAIN tasks
                                    /\ \E i \in 1..Len(r.val) : r.val[i].message_id = m
                                 THEN <<r.val[CHOOSE i \in 1..Len(r.val) :
                                                /\ r.val[i].message_id = m
                                                /\ \A j \in (i + 1)..Len(r.val) :
                                                      r.val[j].message_id # m]>>
                                 ELSE last_seen[m]]
              /\ IF r.val = <<>>
                 THEN /\ pc' = "sleep"
                      /\ poll_resp' = <<StatusLine(resp)>>
                      /\ UNCHANGED <<tasks, current_offset, req,
                                     first_req, result>>
                 ELSE LET after == ProcessEntries(r.val, tasks, current_offset)
                      IN VerifyLoop(after.tasks, after.current_offset)
    /\ UNCHANGED <<num_iterations, greeting_log_limit, log, last_resp, offset,
                   task_list, send_idx, send_failed, send_ok, n_sends,
                   last_ret, send_order, sent_mid, main_ret, gen_failed,
                   printed>>

\* GET /log returns, with whatever the service answers
LogEntriesReturns ==
    /\ pc = "poll_pending"
    /\ \E resp \in LogResponses(log) : PollReturns(resp)
    /\ UNCHANGED consumed

\* the one second backoff sleep returns
SleepReturns ==
    /\ pc = "sleep"
    /\ VerifyLoop(tasks, current_offset)
    /\ UNCHANGED <<num_iterations, greeting_log_limit, log, last_resp, offset,
                   task_list, send_idx, send_failed, send_ok, n_sends, page,
                   last_seen, last_ret, send_order, sent_mid, main_ret>>
    /\ UNCHANGED <<gen_failed, last_consumed, consumed, printed>>

\* the deadline of verify_tasks passes while the loop is suspended
Timeout ==
    /\ pc \in {"poll_pending", "sleep"}
    /\ pc' = "done"
    /\ result' = TimeoutResult(tasks)
    /\ UNCHANGED <<num_iterations, greeting_log_limit, log, last_resp, offset,
                   task_list, send_idx, tasks, send_failed, send_ok, n_sends,
                   current_offset, req, page, last_seen, first_req, last_ret,
                   send_order, sent_mid, poll_resp, main_ret>>
    /\ UNCHANGED <<gen_failed, last_consumed, consumed, printed>>

\* the log service appends an entry while the run is in progress
LogAppend ==
    /\ pc \notin {"start", "done", "exited"}
    /\ Len(log) < MaxLog
    /\ \E m \in LogMids :
         log' = Append(log, GreetingLoggEntry(Len(log) + 1, m))
    /\ UNCHANGED <<pc, num_iterations, greeting_log_limit, last_resp, offset,
                   task_list, send_idx, tasks, send_failed, send_ok, n_sends,
                   current_offset, req, page, last_seen, first_req, result,
                   last_ret, send_order, sent_mid, poll_resp, main_ret>>
    /\ UNCHANGED <<gen_failed, last_consumed, consumed, printed>>

\* ---- main (src/src/main.rs) ----------------------------------------------
\* what main hands to the runtime once execute_e2e_test is back: both arms
\* of the match only log, then Ok(()); a panic unwinds through main
MainExit(r) == IF r.kind = "Panic" THEN "Panic" ELSE "Ok"

\* what print_test_result logs: the size of the map as the number of
\* verified tasks, and per task one of its two lines
print_test_result(t) ==
    [count |-> Cardinality(DOMAIN t),
     verified |-> {k \in DOMAIN t : t[k].greeting_logg_entry # <<>>},
     not_verified |-> {k \in DOMAIN t : t[k].greeting_logg_entry = <<>>}]

\* Level::from_str(&args.logging)? or load_e2e_config(&args.config_path)?
\* fails: main returns the error before it builds a client
MainStartupFails ==
    /\ pc = "start"
    /\ pc' = "exited"
    /\ \E e \in {"LoggParseError", "ConfigError"} : main_ret' = e
    /\ UNCHANGED <<num_iterations, greeting_log_limit, log, last_resp, offset,
                   task_list, send_idx, tasks, send_failed, send_ok, n_sends,
                   current_offset, req, page, last_seen, first_req, result,
                   last_ret, send_order, sent_mid, poll_resp>>
    /\ UNCHANGED <<gen_failed, last_consumed, consumed, printed>>

\* if cfg.num_iterations <= 0 { error!(..); return Ok(()); }
MainInvalidIterations ==
    /\ pc = "start"
    /\ num_iterations <= 0
    /\ pc' = "exited"
    /\ main_ret' = "Ok"
    /\ UNCHANGED <<num_iterations, greeting_log_limit, log, last_resp, offset,
                   task_list, send_idx, tasks, send_failed, send_ok, n_sends,
                   current_offset, req, page, last_seen, first_req, result,
                   last_ret, send_order, sent_mid, poll_resp>>
    /\ UNCHANGED <<gen_failed, last_consumed, consumed, printed>>

\* the execute_e2e_test call of main is back (main calls it only with
\* num_iterations > 0; the tests call it directly)
MainReturns ==
    /\ pc = "done"
    /\ main_ret = "Running"
    /\ num_iterations > 0
    /\ main_ret' = MainExit(result)
    /\ printed' = IF result.kind = "Ok"
                  THEN <<print_test_result(result.tasks)>>
                  ELSE <<>>
    /\ UNCHANGED <<pc, num_iterations, greeting_log_limit, log, last_resp,
                   offset, task_list, send_idx, tasks, send_failed, send_ok,
                   n_sends, current_offset, req, page, last_seen, first_req,
                   result, last_ret, send_order, sent_mid, poll_resp>>
    /\ UNCHANGED <<gen_failed, last_consumed, consumed>>

Next ==
    \/ StartRun
    \/ LastLogEntryReturns
    \/ SendReturns
    \/ LogEntriesReturns
    \/ SleepReturns
    \/ Timeout
    \/ LogAppend
    \/ MainStartupFails
    \/ MainInvalidIterations
    \/ MainReturns

Spec == Init /\ [][Next]_vars

\* ---- runs against a log service that keeps the contract of GET /log ------
\* its answers to the request rq: it never fails, and it answers with the
\* first entries with id >= rq.offset in id order without a gap, at most
\* rq.limit of them and at least one if there is one (the test of
\* execute_e2e_test answers offset=1 with the entry of id 1); 204 when
\* there is none
ContractResponses(l, rq) ==
    LET full == LogPage(l, rq.offset, rq.limit) IN
    {resp \in LogResponses(l) :
        \/ StatusLine(resp) = "204" /\ full = <<>>
        \/ /\ StatusLine(resp) = "200"
           /\ \E n \in 0..Len(full) :
                 /\ n = 0 => full = <<>>
                 /\ resp.body = SubSeq(full, 1, n)}

\* an id occurs twice in the history c
Repeats(c) == \E i, j \in 1..Len(c) : i # j /\ c[i] = c[j]

\* GET /log returns, answered by such a service; the history of consumed
\* ids is extended until it holds an id twice
ContractLogEntriesReturns ==
    /\ pc = "poll_pending"
    /\ req # <<>>
    /\ \E resp \in ContractResponses(log, req[1]) :
         /\ PollReturns(resp)
         /\ consumed' = IF get_log_entries(resp).kind = "Ok" /\ ~Repeats(consumed)
                        THEN consumed \o [i \in 1..Len(resp.body) |->
                                              resp.body[i].id]
                        ELSE consumed

NextContract ==
    \/ StartRun
    \/ LastLogEntryReturns
    \/ SendReturns
    \/ ContractLogEntriesReturns
    \/ SleepReturns
    \/ Timeout
    \/ LogAppend

\* every GET /log is answered (the client gives up after 30 s) and the
\* backoff sleep ends; nothing makes the deadline fire
SpecContract ==
    /\ Init
    /\ [][NextContract]_vars
    /\ WF_vars(ContractLogEntriesReturns)
    /\ WF_vars(SleepReturns)

\* the run with a fallible message generator, against the same log service
NextGen ==
    \/ StartRun
    \/ FallibleLastLogEntryReturns
    \/ SendReturns
    \/ ContractLogEntriesReturns
    \/ SleepReturns
    \/ Timeout
    \/ LogAppend

SpecGen == Init /\ [][NextGen]_vars

\* ---- properties ----------------------------------------------------------
\* a page that keeps the contract of GET /log for a request at offset off:
\* ascending ids, none below off
Ascending(p) == \A i, j \in 1..Len(p) : i < j => p[i].id <= p[j].id
HonoursContract(p, off) == Ascending(p) /\ \A i \in 1..Len(p) : p[i].id >= off

MaxId(p) == CHOOSE m \in {p[i].id : i \in 1..Len(p)} :
                \A i \in 1..Len(p) : p[i].id <= m

NoMatch(p, t) == \A i \in 1..Len(p) : p[i].message_id \notin DOMAIN t

AllVerified(t) == \A k \in DOMAIN t : t[k].greeting_logg_entry # <<>>

\* GET /log/last was answered with 204
LastWas204 ==
    last_resp # <<>> /\ last_resp[1].kind = "http" /\ last_resp[1].status = 204

\* GET /log/last failed: a transport error or a status other than 200, 204
LastFailed ==
    /\ last_resp # <<>>
    /\ \/ last_resp[1].kind = "transport"
       \/ last_resp[1].status \notin {200, 204}

\* this step is the return of a GET /log whose non-empty page the for loop
\* of verify_tasks ran over (page' is that page)
PageProcessed ==
    /\ pc = "poll_pending"
    /\ page' # <<>>
    /\ \/ pc' = "poll_pending"
       \/ pc' = "done" /\ result'.kind = "Ok"

\* C1: with num_iterations = 0 and GET /log/last answering 204, the run ends
\* at once with Ok and an empty map, and neither a GET /log nor a POST
\* /greeting is ever issued.
C1_ZeroIterations ==
    (num_iterations = 0 /\ (last_resp = <<>> \/ LastWas204)) =>
        /\ first_req = <<>>
        /\ req = <<>>
        /\ pc # "poll_pending"
        /\ n_sends = 0
        /\ LastWas204 => /\ pc = "done"
                         /\ result.kind = "Ok"
                         /\ DOMAIN result.tasks = {}

C1_Witness ==
    /\ num_iterations = 0
    /\ LastWas204
    /\ pc = "done"
    /\ result.kind = "Ok"
    /\ first_req = <<>>

\* C2 as stated: when the run is over (other than by a panic), every
\* registered task whose message id occurs in a log entry after the starting
\* offset is in the returned map with exactly that entry attached.
C2_Original ==
    (pc = "done" /\ result.kind # "Panic") =>
        \A k \in DOMAIN tasks : \A i \in 1..Len(log) :
            (log[i].id > offset /\ log[i].message_id = k) =>
                /\ result.kind = "Ok"
                /\ k \in DOMAIN result.tasks
                /\ result.tasks[k].greeting_logg_entry = <<log[i]>>

\* C2 amended: a registered task carries exactly the entry with its message
\* id that the poll loop consumed last (none while none was consumed), and
\* the returned map holds the task with that entry when the run returns Ok,
\* which it does only with every task matched.
C2_VerifiedWithConsumedEntry ==
    /\ \A k \in DOMAIN tasks :
          /\ tasks[k].greeting_logg_entry = last_seen[k]
          /\ tasks[k].greeting_logg_entry # <<>> =>
                tasks[k].greeting_logg_entry[1].message_id = k
    /\ result.kind = "Ok" => /\ result.tasks = tasks
                             /\ AllVerified(result.tasks)
    /\ result.kind # "Ok" => DOMAIN result.tasks = {}

C2_Witness ==
    /\ pc = "done"
    /\ result.kind = "Ok"
    /\ \E k \in DOMAIN result.tasks :
          /\ result.tasks[k].greeting_logg_entry # <<>>
          /\ result.tasks[k].greeting_logg_entry[1] \in Range(log)
          /\ result.tasks[k].greeting_logg_entry[1].id > offset

\* C3: a task whose send failed is in neither the registry nor the returned
\* map, so the while condition of verify_tasks never ranges over it.
C3_FailedSendAbsent ==
    /\ \A k \in DOMAIN tasks : tasks[k].external_reference \notin send_failed
    /\ \A k \in DOMAIN result.tasks :
          result.tasks[k].external_reference \notin send_failed
    /\ {tasks[k].external_reference : k \in DOMAIN tasks} \subseteq send_ok

C3_Witness ==
    /\ send_failed # {}
    /\ pc = "done"
    /\ result.kind = "Ok"
    /\ DOMAIN result.tasks # {}

\* C4: when the deadline ends the poll loop the run returns TimeoutError
\* without any task map, with the registry still holding an unmatched task,
\* and nothing is issued or returned after that.
C4_TimeoutNoPartialResult ==
    /\ [](result.kind = "TimeoutError" =>
             /\ pc = "done"
             /\ DOMAIN result.tasks = {}
             /\ AnyUnverified(tasks)
             /\ req # <<>>)
    /\ [][result.kind = "TimeoutError" =>
             /\ pc' = pc
             /\ req' = req
             /\ result' = result]_vars

\* the deadline hit the backoff sleep after a page had been consumed
C4_Witness ==
    /\ result.kind = "TimeoutError"
    /\ current_offset > offset
    /\ page = <<>>

\* C5: Ok is returned only with every task of the registry matched; while
\* one is unmatched the loop is suspended on a GET /log or the sleep, and
\* it ends only by the deadline or by a failed poll.
C5_OkOnlyWhenAllVerified ==
    /\ result.kind = "Ok" => /\ result.tasks = tasks
                             /\ AllVerified(tasks)
    /\ pc \in {"poll_pending", "sleep"} =>
          \E k \in DOMAIN tasks : tasks[k].greeting_logg_entry = <<>>
    /\ (first_req # <<>> /\ pc = "done"
           /\ \E k \in DOMAIN tasks : tasks[k].greeting_logg_entry = <<>>) =>
          result.kind \in {"TimeoutError", "Panic"}

\* two tasks, one matched, the loop still polling
C5_Witness ==
    /\ pc = "poll_pending"
    /\ \E k \in DOMAIN tasks : tasks[k].greeting_logg_entry # <<>>
    /\ \E k \in DOMAIN tasks : tasks[k].greeting_logg_entry = <<>>

\* C6: current_offset never decreases in a step, provided the page a GET
\* /log returns in that step keeps the API contract for the offset that was
\* requested.
C6_OffsetMonotonic ==
    [][(pc # "poll_pending" \/ HonoursContract(page', req[1].offset)) =>
           current_offset' >= current_offset]_vars

\* two contract-keeping non-empty pages have been consumed
C6_Witness ==
    /\ pc = "done"
    /\ result.kind = "Ok"
    /\ page # <<>>
    /\ HonoursContract(page, req[1].offset)
    /\ req[1].offset > offset + 1

\* C7 as stated: a non-empty page without a match leaves the tasks alone
\* and sets current_offset to the maximum id of the page.
C7_Original ==
    [][(PageProcessed /\ NoMatch(page', tasks)) =>
           /\ tasks' = tasks
           /\ current_offset' = MaxId(page')]_vars

\* C7 amended: a non-empty page without a match leaves the tasks alone and
\* sets current_offset to the id of the last entry of the page, which is the
\* maximum id when the page is in ascending order; the next poll asks for
\* the entries after that id.
C7_NoMatchPageAdvancesToLastId ==
    [][(PageProcessed /\ NoMatch(page', tasks)) =>
           /\ tasks' = tasks
           /\ current_offset' = page'[Len(page')].id
           /\ Ascending(page') => current_offset' = MaxId(page')
           /\ pc' = "poll_pending"
           /\ req'[1].offset = page'[Len(page')].id + 1]_vars

C7_Witness ==
    /\ pc = "poll_pending"
    /\ page # <<>>
    /\ NoMatch(page, tasks)
    /\ DOMAIN tasks # {}
    /\ current_offset = page[Len(page)].id
    /\ current_offset > offset

\* C8 as stated: in a run of 2 iterations with one failed send, both tasks
\* get their send attempt, the registry holds exactly the task that was sent
\* successfully, and an Ok result carries that task verified.
C8_FailedSendDoesNotAbort ==
    (num_iterations = 2 /\ Cardinality(send_failed) = 1
        /\ pc \in {"poll_pending", "sleep", "done"}) =>
        /\ n_sends = 2
        /\ send_failed \cup send_ok = {1, 2}
        /\ {tasks[k].external_reference : k \in DOMAIN tasks} = send_ok
        /\ result.kind = "Ok" => /\ Cardinality(DOMAIN result.tasks) = 1
                                 /\ AllVerified(result.tasks)

\* C9 as stated: a failed GET /log/last makes the run return a client error
\* with nothing generated, sent or polled.
C9_OffsetDiscoveryFailure ==
    LastFailed =>
        /\ pc = "done"
        /\ result = ClientError
        /\ task_list = <<>>
        /\ n_sends = 0
        /\ first_req = <<>>

\* C10: the starting offset is the id of the entry GET /log/last returned,
\* or 0 after a 204; a pending GET /log asks for current_offset + 1 with the
\* configured limit, and the first one for starting offset + 1.
C10_OffsetAndPollRequest ==
    /\ (last_resp # <<>> /\ last_resp[1].kind = "http") =>
          /\ last_resp[1].status = 204 => offset = 0
          /\ (last_resp[1].status = 200 /\ last_resp[1].body # <<>>) =>
                offset = last_resp[1].body[1].id
    /\ pc = "poll_pending" =>
          /\ req = <<[direction |-> "forward",
                      offset |-> current_offset + 1,
                      limit |-> greeting_log_limit]>>
    /\ first_req # <<>> =>
          first_req = <<[direction |-> "forward",
                         offset |-> offset + 1,
                         limit |-> greeting_log_limit]>>

\* first poll of a run that found an entry with id 1 in the log
C10_Witness ==
    /\ pc = "poll_pending"
    /\ offset = 1
    /\ first_req = req
    /\ req[1].offset = 2
    /\ req[1].limit = greeting_log_limit

\* C11 as stated: a failed GET /log inside the poll loop ends the run at
\* once, and the run returns the client error to its caller.
C11_PollFailureIsClientError ==
    poll_resp = <<"failure">> =>
        /\ pc = "done"
        /\ result = ClientError

\* C12 as stated: main (when it does not panic) returns Err exactly when the
\* run ended in a configuration error, a client error or a timeout, and
\* Ok(()) in every other case.
C12_ExitStatus ==
    main_ret \notin {"Running", "Panic"} =>
        (main_ret # "Ok" <=>
            \/ main_ret \in {"ConfigError", "LoggParseError"}
            \/ result.kind \in {"ClientError", "TimeoutError"})

\* C13 as stated: with a valid configuration whose num_iterations is <= 0,
\* main is over without a request to either service, and what it returned
\* is a failure.
C13_InvalidIterationsIsFailure ==
    (pc = "exited" /\ num_iterations <= 0
        /\ main_ret \notin {"ConfigError", "LoggParseError"}) =>
        /\ last_resp = <<>>
        /\ n_sends = 0
        /\ first_req = <<>>
        /\ main_ret # "Ok"

\* C14 as stated: get_last_log_entry returns Ok(Some(entry)) for a 200 that
\* carries an entry, Ok(None) for 204 and Err for every other status; Ok
\* comes only from 200 and 204.
C14_LastLogEntryStatusMapping ==
    (last_resp # <<>> /\ last_resp[1].kind = "http") =>
        /\ (last_resp[1].status = 200 /\ last_resp[1].body # <<>>) =>
              last_ret = <<ROk(last_resp[1].body)>>
        /\ last_resp[1].status = 204 => last_ret = <<ROk(<<>>)>>
        /\ last_resp[1].status \notin {200, 204} => last_ret = <<RErr>>
        /\ last_ret[1].kind = "Ok" => last_resp[1].status \in {200, 204}

\* C15 as stated: when the run is over (other than by a panic) with a sent
\* task that no log entry matched, the caller gets Ok with the map, that
\* task in it without a log entry.
C15_Original ==
    (pc = "done" /\ result.kind # "Panic" /\ AnyUnverified(tasks)) =>
        /\ result.kind = "Ok"
        /\ result.tasks = tasks

\* C15 amended: when the run is over (other than by a panic) with a sent
\* task that no log entry matched, that task is still in the registry under
\* its message id without a log entry, but the caller gets TimeoutError and
\* no map; a map the caller gets holds no task without a log entry.
C15_UnverifiedAtDeadlineIsTimeout ==
    /\ (pc = "done" /\ result.kind # "Panic" /\ AnyUnverified(tasks)) =>
          /\ result.kind = "TimeoutError"
          /\ DOMAIN result.tasks = {}
          /\ \A k \in DOMAIN tasks : tasks[k].message_id = <<k>>
    /\ \A k \in DOMAIN result.tasks :
          result.tasks[k].greeting_logg_entry # <<>>

\* the deadline passed with one of two sent tasks matched
C15_Witness ==
    /\ pc = "done"
    /\ result.kind = "TimeoutError"
    /\ \E k \in DOMAIN tasks : tasks[k].greeting_logg_entry = <<>>
    /\ \E k \in DOMAIN tasks : tasks[k].greeting_logg_entry # <<>>

\* C16 as stated: the POST /greeting requests issued so far are those of
\* the first tasks of the list, one each and in list order, each issued
\* after the one before has returned; once the run is past offset discovery
\* and over, every generated task has been submitted.
C16_EachTaskSentOnceInOrder ==
    /\ n_sends = send_idx
    /\ send_order = [i \in 1..n_sends |-> task_list[i].external_reference]
    /\ send_ok \cup send_failed =
          {send_order[i] : i \in 1..(IF pc = "send_pending"
                                     THEN n_sends - 1 ELSE n_sends)}
    /\ (pc = "done" /\ last_ret # <<>> /\ last_ret[1].kind = "Ok") =>
          n_sends = Len(task_list)

\* C17: tasks exist only after GET /log/last gave Ok; when the first POST
\* /greeting is out the list holds num_iterations tasks and never changes
\* again; a GET /log is issued only when every task has been submitted and
\* every POST /greeting has returned, and no POST follows it.
C17_PhasesOrdered ==
    /\ [](/\ (task_list # <<>> \/ n_sends > 0 \/ first_req # <<>>) =>
                (last_ret # <<>> /\ last_ret[1].kind = "Ok")
          /\ n_sends > 0 => Len(task_list) = num_iterations
          /\ first_req # <<>> =>
                /\ Len(task_list) = num_iterations
                /\ n_sends = Len(task_list)
                /\ send_ok \cup send_failed = Range(send_order)
                /\ pc # "send_pending")
    /\ [][/\ n_sends > 0 => task_list' = task_list
          /\ first_req # <<>> => n_sends' = n_sends]_vars

\* the first GET /log of a run of two iterations is out
C17_Witness ==
    /\ pc = "poll_pending"
    /\ num_iterations = 2
    /\ n_sends = 2
    /\ first_req = req
    /\ page = <<>>

\* C18: the return of a GET /log with 204 or with 200 and an empty array
\* puts the loop to sleep with current_offset, the registry and the request
\* unchanged, and the request issued when the sleep is over is the same one.
C18_EmptyPageFrame ==
    [][/\ (pc = "poll_pending" /\ poll_resp' \in {<<"204">>, <<"200">>}) =>
             /\ pc' = "sleep"
             /\ page' = <<>>
             /\ UNCHANGED <<current_offset, tasks, req, result>>
       /\ (pc = "sleep" /\ pc' # "sleep" /\ result'.kind # "TimeoutError") =>
             /\ pc' = "poll_pending"
             /\ UNCHANGED <<current_offset, tasks, req>>
             /\ req = <<PollRequest(current_offset, greeting_log_limit)>>]_vars

\* asleep after a 204, one page already consumed
C18_Witness ==
    /\ pc = "sleep"
    /\ poll_resp = <<"204">>
    /\ current_offset > offset
    /\ req = <<LogRequest(current_offset + 1, greeting_log_limit)>>

\* C19 as stated: the log entry attached to a task never changes.
C19_Original ==
    [][\A k \in DOMAIN tasks :
          tasks[k].greeting_logg_entry # <<>> =>
             tasks'[k].greeting_logg_entry = tasks[k].greeting_logg_entry]_vars

\* C19 amended: a task never loses its log entry, and the entry of a task
\* changes only in a step that consumes a different entry with the task's
\* message id, which is then the one attached (the last such entry of the
\* page); consuming the attached entry again is a no-op.
C19_AttachmentReplacedBySameId ==
    [][\A k \in DOMAIN tasks :
          /\ k \in DOMAIN tasks'
          /\ tasks[k].greeting_logg_entry # <<>> =>
                tasks'[k].greeting_logg_entry # <<>>
          /\ tasks'[k].greeting_logg_entry # tasks[k].greeting_logg_entry =>
                /\ PageProcessed
                /\ tasks'[k].greeting_logg_entry = last_seen'[k]
                /\ last_seen'[k][1].message_id = k
                /\ last_seen'[k][1] \in Range(page')]_vars

\* a matched task, a second entry with its message id in the log, and a
\* page just consumed
C19_Witness ==
    /\ pc = "poll_pending"
    /\ page # <<>>
    /\ \E k \in DOMAIN tasks :
          /\ tasks[k].greeting_logg_entry # <<>>
          /\ \E e \in Range(page) : e.message_id = k
          /\ \E e \in Range(log) :
                e.message_id = k /\ <<e>> # tasks[k].greeting_logg_entry

\* C20: the keys of the registry are the message ids that successful sends
\* returned, so its size is the number of different ids, and under each key
\* is the task of the last send that returned it.
C20_CollidingIdsLaterWins ==
    /\ DOMAIN tasks = {p[2] : p \in sent_mid}
    /\ Cardinality(DOMAIN tasks) = Cardinality({p[2] : p \in sent_mid})
    /\ \A k \in DOMAIN tasks :
          /\ <<tasks[k].external_reference, k>> \in sent_mid
          /\ \A p \in sent_mid : \A i, j \in 1..Len(send_order) :
                (p[2] = k /\ send_order[i] = p[1]
                    /\ send_order[j] = tasks[k].external_reference) => i <= j

\* two sends gave Ok with the same message id
C20_Witness ==
    /\ Cardinality(sent_mid) = 2
    /\ Cardinality(DOMAIN tasks) = 1
    /\ pc # "send_pending"
    /\ \A k \in DOMAIN tasks : tasks[k].external_reference = 2

\* C21: against a log service that answers every GET /log with the next
\* entries from the requested offset on, in id order, the ids the for loop
\* ran over so far are strictly ascending (none twice), and they are the
\* ids of all log entries above the starting offset up to current_offset
\* (none skipped).
C21_ConsumedAscending ==
    /\ \A i, j \in 1..Len(consumed) : i < j => consumed[i] < consumed[j]
    /\ Range(consumed) =
          {e.id : e \in {x \in Range(log) :
                            x.id > offset /\ x.id <= current_offset}}

\* a second page is asked for after the entry of id 2, the first one after
\* the starting offset 1, was consumed
C21_Witness ==
    /\ pc = "poll_pending"
    /\ offset = 1
    /\ consumed = <<2>>
    /\ req = <<LogRequest(3, greeting_log_limit)>>

\* C22: against such a service, from a point of the poll loop where the
\* limit is at least 1 and every task of the registry has an entry with its
\* message id above the starting offset in the log, the run comes to its
\* end, and it ends with Ok and every task of the registry verified unless
\* the deadline fired.
C22_EventuallyAllVerified ==
    (/\ pc \in {"poll_pending", "sleep"}
     /\ greeting_log_limit >= 1
     /\ \A k \in DOMAIN tasks :
           \E e \in Range(log) : e.id > offset /\ e.message_id = k)
    ~> (/\ pc = "done"
        /\ \/ result.kind = "TimeoutError"
           \/ /\ result.kind = "Ok"
              /\ DOMAIN result.tasks = DOMAIN tasks
              /\ AllVerified(result.tasks))

\* two tasks verified over two pages of one entry each
C22_Witness ==
    /\ pc = "done"
    /\ result.kind = "Ok"
    /\ Cardinality(DOMAIN result.tasks) = 2
    /\ greeting_log_limit = 1
    /\ consumed = <<1, 2>>

C24_RegistryKeyConsistency ==
    /\ \A k \in DOMAIN tasks :
          /\ tasks[k].message_id = <<k>>
          /\ tasks[k].greeting_logg_entry # <<>> =>
                tasks[k].greeting_logg_entry[1].message_id = k
    /\ DOMAIN tasks = {p[2] : p \in sent_mid}
    /\ (pc = "done" /\ result.kind = "Ok") =>
          /\ DOMAIN result.tasks = {p[2] : p \in sent_mid}
          /\ \A k \in DOMAIN result.tasks : result.tasks[k].message_id = <<k>>

C24_Witness ==
    /\ pc = "done"
    /\ result.kind = "Ok"
    /\ DOMAIN result.tasks = {"m1", "m2"}
    /\ sent_mid = {<<1, "m1">>, <<2, "m2">>}
    /\ result.tasks["m2"].greeting_logg_entry # <<>>

\* C25: once the first message of the run has been sent the starting offset
\* is fixed, and every entry the log gets from then on (so every entry of a
\* message sent in this run) has an id greater than the starting offset.
C25_RunEntriesAboveOffset ==
    [][(n_sends >= 1 /\ log' # log) =>
          /\ offset' = offset
          /\ Len(log') > Len(log)
          /\ SubSeq(log', 1, Len(log)) = log
          /\ \A i \in (Len(log) + 1)..Len(log') : log'[i].id > offset]_vars

C25_Witness ==
    /\ offset = 1
    /\ Len(log) >= 2
    /\ n_sends >= 1
    /\ \E k \in DOMAIN tasks :
          /\ tasks[k].greeting_logg_entry # <<>>
          /\ tasks[k].greeting_logg_entry[1] = log[2]
          /\ log[2].id = 2

\* C26: main calls print_test_result exactly for an Ok result, and then every
\* task of the map has an attached entry: the logged count (the map size) is
\* the number of verified tasks and no task takes the not-verified branch.
C26_PrintedAllVerified ==
    /\ printed # <<>> =>
          /\ result.kind = "Ok"
          /\ printed[1].not_verified = {}
          /\ printed[1].count = Cardinality(printed[1].verified)
          /\ printed[1].verified = DOMAIN result.tasks
    /\ (main_ret # "Running" /\ result.kind = "Ok") => printed # <<>>

C26_Witness ==
    /\ printed # <<>>
    /\ printed[1].count = 2
    /\ printed[1].verified = {"m1", "m2"}

\* C27 as stated: when num_iterations > 0 and every send has failed, all
\* tasks got their send attempt, the registry is empty, the run returns Ok
\* with an empty map without any GET /log request, and main prints 0 tasks
\* and exits with status zero.
C27_AllSendsFailedIsEmptySuccess ==
    (num_iterations > 0 /\ send_ok = {} /\ send_failed # {}
        /\ pc \in {"poll_pending", "sleep", "done"}) =>
        /\ pc = "done"
        /\ send_failed = 1..num_iterations
        /\ DOMAIN tasks = {}
        /\ result.kind = "Ok"
        /\ DOMAIN result.tasks = {}
        /\ first_req = <<>>
        /\ main_ret \in {"Running", "Ok"}
        /\ main_ret = "Ok" => printed # <<>> /\ printed[1].count = 0

\* C28: the deadline ends the run only while a GET /log request or the sleep
\* is pending, and leaves registry and offset as they are; at those points
\* and in a run the deadline has ended, no page is half processed:
\* current_offset is the starting offset with nothing attached, or the id of
\* the last entry of the last non-empty page, and every entry of the last
\* page that belongs to a registered task is attached to some task.
C28_PageProcessingAtomic ==
    /\ []((pc \in {"poll_pending", "sleep"}
            \/ (pc = "done" /\ result.kind = "TimeoutError")) =>
           /\ last_consumed = <<>> =>
                 /\ current_offset = offset
                 /\ \A k \in DOMAIN tasks : tasks[k].greeting_logg_entry = <<>>
           /\ last_consumed # <<>> => current_offset = last_consumed[1]
           /\ page # <<>> =>
                 /\ current_offset = page[Len(page)].id
                 /\ \A i \in 1..Len(page) :
                       page[i].message_id \in DOMAIN tasks =>
                           tasks[page[i].message_id].greeting_logg_entry # <<>>)
    /\ [][(result'.kind = "TimeoutError" /\ result.kind # "TimeoutError") =>
              /\ pc \in {"poll_pending", "sleep"}
              /\ tasks' = tasks
              /\ current_offset' = current_offset]_vars

C28_Witness ==
    /\ pc = "done"
    /\ result.kind = "TimeoutError"
    /\ Len(page) = 2
    /\ current_offset = page[2].id
    /\ \E k \in DOMAIN tasks : tasks[k].greeting_logg_entry = <<>>
    /\ \E k \in DOMAIN tasks : tasks[k].greeting_logg_entry # <<>>

\* C29: with greeting_log_limit = 0 and a log service that returns at most
\* limit entries, a verification loop that has started asks for 0 entries
\* every time, consumes nothing, never moves current_offset, never matches a
\* task, and a run that has ended has ended with TimeoutError, not Ok.
C29_ZeroLimitOnlyTimesOut ==
    (greeting_log_limit = 0 /\ first_req # <<>>) =>
        /\ DOMAIN tasks # {}
        /\ pc \in {"poll_pending", "sleep", "done"}
        /\ req[1].limit = 0
        /\ consumed = <<>>
        /\ current_offset = offset
        /\ \A k \in DOMAIN tasks : tasks[k].greeting_logg_entry = <<>>
        /\ result.kind # "Ok"
        /\ pc = "done" => result.kind = "TimeoutError"

C29_Witness ==
    /\ greeting_log_limit = 0
    /\ first_req # <<>>
    /\ pc = "done"
    /\ result.kind = "TimeoutError"
    /\ poll_resp # <<>>
    /\ \E e \in Range(log) : e.id > offset /\ e.message_id \in DOMAIN tasks

\* C30: once verify_tasks runs, current_offset is the starting offset while
\* no entry has been consumed, and from then on the id of the entry consumed
\* last: after a non-empty page it is the id of the page's last entry in the
\* order of the response, whatever the ids before it were.
C30_OffsetIsLastConsumed ==
    (first_req # <<>> \/ (pc = "done" /\ result.kind = "Ok")) =>
        /\ current_offset = IF last_consumed = <<>> THEN offset
                            ELSE last_consumed[1]
        /\ page # <<>> =>
              /\ last_consumed = <<page[Len(page)].id>>
              /\ current_offset = page[Len(page)].id

C30_Witness ==
    /\ pc = "poll_pending"
    /\ Len(page) = 2
    /\ page[1].id > page[2].id
    /\ current_offset = page[2].id
    /\ current_offset > offset

====
